---- MODULE Spec2Model ----
(***************************************************************************)
(* Model of the graceful-shutdown orchestrator (package graceful).         *)
(*                                                                         *)
(* The orchestrator (type Graceful) owns an errgroup (group, groupCtx)     *)
(* derived from a signal context, a registry of shutdown hooks             *)
(* (shutdowns), and three settings.  Wait schedules an internal task that  *)
(* blocks on groupCtx.Done, then runs shutdown(), which runs every hook    *)
(* in a second errgroup limited to maxShutdownProcess units, under a       *)
(* context.WithTimeout of maxShutdownTime.                                 *)
(*                                                                         *)
(* Time is abstracted: the deadline timer may fire at any moment between   *)
(* its creation and shutdown()'s return.  A hook's process function may    *)
(* return nil, return an error, or never return.                           *)
(***************************************************************************)
EXTENDS Integers, Sequences, FiniteSets, TLC

\* ------------------------------------------------------------------ bounds
MaxTasks == 1
MaxHooks == 2

\* ------------------------------------------------------- program constants
\* durations are counted in seconds: 10 * time.Second
defaultMaxShutdownTime == 10
defaultMaxShutdownProcess == 5

\* Inputs the setters and registrations are called with.
DurationInputs == {-1, 0, 1}
ProcessCountInputs == {-1, 0, 1}
ProcessInputs == {"nil", "func"}
TagInputs == {""}

\* ------------------------------------------------------------------ errors
\* error values are pairs <<kind, index>>; Nil is Go's nil error.
Nil == <<"nil", 0>>
DeadlineExceeded == <<"context.DeadlineExceeded", 0>>
Canceled == <<"context.Canceled", 0>>
TaskErr(i) == <<"task", i>>
HookErr(i) == <<"hook", i>>
TaskErrs == {TaskErr(i) : i \in 1..(MaxTasks + 1)}
HookErrs == {HookErr(i) : i \in 1..(MaxHooks + 1)}
\* marks that shutdown() has not returned (it is no Go value)
NotReturned == <<"not returned", 0>>

VARIABLES
    cancelOnError,        \* Graceful.cancelOnError
    maxShutdownTime,      \* Graceful.maxShutdownTime
    maxShutdownProcess,   \* Graceful.maxShutdownProcess
    shutdowns,            \* Graceful.shutdowns: the hook registry
    tasks,                \* goroutines started by group.Go for background tasks
    signalCtx,            \* Graceful.signalCtx: [done, notify]
    groupCtx,             \* Graceful.groupCtx: [done, cause]
    groupErr,             \* group.err, written once (errOnce)
    waitpc,               \* the caller of Wait: "idle", "waiting", "returned"
    waitResult,           \* what Wait returned
    itpc,                 \* the internal task scheduled by Wait
    snapshot,             \* the slice value `range g.shutdowns` iterates
    next,                 \* index of the next hook the loop passes to Go
    deadlineFired,        \* shutdownCtx's timer has expired
    shutdownGroupCtxErr,  \* shutdownGroupCtx.Err(): Nil while not done
    shutdownGroupErr,     \* shutdownGroup.err, written once (errOnce)
    unit,                 \* per hook: the goroutine started by shutdownGroup.Go
    fn,                   \* per hook: the inner goroutine calling process
    fnErr,                \* per hook: what process returned
    shutdownRet,          \* what shutdown() returned
    atDeadline,           \* history: the hooks' functions when the deadline fired
    mutex,                \* Graceful.mutex: 0 unlocked, else the registrar holding it
    regs                  \* per registrar: its place in the registration, the last id returned

vars == <<cancelOnError, maxShutdownTime, maxShutdownProcess, shutdowns, tasks,
          signalCtx, groupCtx, groupErr, waitpc, waitResult, itpc, snapshot,
          next, deadlineFired, shutdownGroupCtxErr, shutdownGroupErr, unit, fn,
          fnErr, shutdownRet, atDeadline, mutex, regs>>

config == <<cancelOnError, maxShutdownTime, maxShutdownProcess>>
coordinator == <<itpc, snapshot, next, deadlineFired, shutdownGroupCtxErr,
                 shutdownGroupErr, unit, fn, fnErr, shutdownRet, atDeadline>>
groupState == <<groupCtx, groupErr>>
waitState == <<waitpc, waitResult>>
registrars == <<mutex, regs>>

\* goroutines that call RegisterShutdownProcessWithTag step by step
Registrars == {1, 2}

\* ------------------------------------------------------------ construction
\* NewWithContext: signal.NotifyContext, errgroup.WithContext, defaults.
Init ==
    /\ cancelOnError = FALSE
    /\ maxShutdownTime = defaultMaxShutdownTime
    /\ maxShutdownProcess = defaultMaxShutdownProcess
    /\ shutdowns = <<>>
    /\ tasks = <<>>
    /\ signalCtx = [done |-> FALSE, notify |-> TRUE]
    /\ groupCtx = [done |-> FALSE, cause |-> Nil]
    /\ groupErr = Nil
    /\ waitpc = "idle"
    /\ waitResult = Nil
    /\ itpc = "none"
    /\ snapshot = <<>>
    /\ next = 1
    /\ deadlineFired = FALSE
    /\ shutdownGroupCtxErr = Nil
    /\ shutdownGroupErr = Nil
    /\ unit = <<>>
    /\ fn = <<>>
    /\ fnErr = <<>>
    /\ shutdownRet = NotReturned
    /\ atDeadline = "unfired"
    /\ mutex = 0
    /\ regs = [r \in Registrars |-> [pc |-> "idle", ret |-> "none"]]

\* ----------------------------------------------------------------- setters
SetCancelOnError(value) ==
    /\ waitpc = "idle"
    /\ cancelOnError' = value
    /\ UNCHANGED <<registrars, maxShutdownTime, maxShutdownProcess, shutdowns,
                   tasks, signalCtx, groupState, waitState, coordinator>>

\* mutant of SetMaxShutdownTime: the check is `duration < 0`, zero is stored
SetMaxShutdownTime_ZeroStored(duration) ==
    /\ waitpc = "idle"
    /\ maxShutdownTime' = IF duration < 0 THEN defaultMaxShutdownTime ELSE duration
    /\ UNCHANGED <<registrars, cancelOnError, maxShutdownProcess, shutdowns,
                   tasks, signalCtx, groupState, waitState, coordinator>>

SetMaxShutdownTime(duration) ==
    /\ waitpc = "idle"
    /\ maxShutdownTime' = IF duration < 1 THEN defaultMaxShutdownTime ELSE duration
    /\ UNCHANGED <<registrars, cancelOnError, maxShutdownProcess, shutdowns,
                   tasks, signalCtx, groupState, waitState, coordinator>>

SetMaxShutdownProcess(max) ==
    /\ waitpc = "idle"
    /\ maxShutdownProcess' = IF max < 1 THEN defaultMaxShutdownProcess ELSE max
    /\ UNCHANGED <<registrars, cancelOnError, maxShutdownTime, shutdowns,
                   tasks, signalCtx, groupState, waitState, coordinator>>

\* ------------------------------------------------------- context, errgroup
\* context cancel: the first cancellation wins, later ones change nothing.
Cancel(ctx, cause) ==
    IF ctx.done THEN ctx ELSE [done |-> TRUE, cause |-> cause]

\* mutant of ErrOnce: every non-nil error overwrites the recorded one
ErrOnce_LastWins(err, e) ==
    IF e # Nil THEN e ELSE err

\* errgroup's errOnce.Do(func() { g.err = err; ... }): only the first
\* non-nil error returned by a goroutine of the group is recorded.
ErrOnce(err, e) ==
    IF e # Nil /\ err = Nil THEN e ELSE err

\* mutant of GroupCtxAfter: a group made without WithContext cancels nothing
GroupCtxAfter_NoCancel(e) == groupCtx

\* A goroutine of g.group returned e: errOnce records it and cancels groupCtx.
GroupCtxAfter(e) ==
    IF e # Nil /\ groupErr = Nil THEN Cancel(groupCtx, e) ELSE groupCtx

\* mutant of ShutdownGroupCtxAfter: a group made without WithContext, a
\* unit's error cancels nothing
ShutdownGroupCtxAfter_NoCancel(r) == shutdownGroupCtxErr

\* A goroutine of shutdownGroup returned r: errOnce records it and cancels
\* shutdownGroupCtx, whose Err() is then context.Canceled unless the
\* deadline had already expired.
ShutdownGroupCtxAfter(r) ==
    IF r # Nil /\ shutdownGroupErr = Nil /\ shutdownGroupCtxErr = Nil
    THEN Canceled
    ELSE shutdownGroupCtxErr

\* -------------------------------------------------------------- registration
\* RegisterProcess / RegisterProcessWithContext: group.Go starts the task.
RegisterTask(process) ==
    /\ waitpc = "idle"
    /\ Len(tasks) < MaxTasks
    /\ tasks' = IF process = "nil"
                THEN tasks
                ELSE Append(tasks, "running")
    /\ UNCHANGED <<registrars, config, shutdowns, signalCtx, groupState,
                   waitState, coordinator>>

RegisterProcess(process) == RegisterTask(process)

\* the task is handed groupCtx; what it does with it is its own affair
RegisterProcessWithContext(process) == RegisterTask(process)

\* newShutdown: a fresh id; an empty tag defaults to the id's string form.
newShutdown(tag, id) ==
    [id |-> id, tag |-> IF tag = "" THEN ToString(id) ELSE tag]

\* RegisterShutdownProcessWithTag, under g.mutex.
RegisterShutdownProcessWithTag(process, tag) ==
    /\ waitpc # "returned"
    /\ Len(shutdowns) < MaxHooks
    /\ shutdowns' = IF process = "nil"
                    THEN shutdowns
                    ELSE Append(shutdowns, newShutdown(tag, Len(shutdowns) + 1))
    /\ UNCHANGED <<registrars, config, tasks, signalCtx, groupState,
                   waitState, coordinator>>

RegisterShutdownProcess(process) == RegisterShutdownProcessWithTag(process, "")

\* ---------------------------------------------- registration, step by step
\* mutant of RegisterCall: no nil check, a nil process is registered too
RegisterCall_NoNilCheck(r, process) ==
    /\ waitpc # "returned"
    /\ regs[r].pc = "idle"
    /\ mutex = 0
    /\ Len(shutdowns) < MaxHooks
    /\ mutex' = r
    /\ regs' = [regs EXCEPT ![r].pc = "locked"]
    /\ UNCHANGED <<config, shutdowns, tasks, signalCtx, groupState, waitState,
                   coordinator>>

\* RegisterShutdownProcessWithTag as the steps of a goroutine r that other
\* goroutines interleave with.  The call: a nil process returns "" at once;
\* otherwise g.mutex.Lock(), which blocks while another registrar holds it.
RegisterCall(r, process) ==
    /\ waitpc # "returned"
    /\ regs[r].pc = "idle"
    /\ IF process = "nil"
       THEN /\ regs' = [regs EXCEPT ![r].ret = ""]
            /\ UNCHANGED mutex
       ELSE /\ mutex = 0
            /\ Len(shutdowns) < MaxHooks
            /\ mutex' = r
            /\ regs' = [regs EXCEPT ![r].pc = "locked"]
    /\ UNCHANGED <<config, shutdowns, tasks, signalCtx, groupState, waitState,
                   coordinator>>

\* g.shutdowns = append(g.shutdowns, newShutdown(tag, process)): from here
\* the new slice value is stored whole.
RegisterAppend(r, tag) ==
    /\ regs[r].pc = "locked"
    /\ shutdowns' = Append(shutdowns, newShutdown(tag, Len(shutdowns) + 1))
    /\ regs' = [regs EXCEPT ![r].pc = "appended"]
    /\ UNCHANGED <<config, mutex, tasks, signalCtx, groupState, waitState,
                   coordinator>>

\* return newShutdownProcess.id.String(), then the deferred g.mutex.Unlock()
RegisterUnlock(r) ==
    /\ regs[r].pc = "appended"
    /\ mutex' = 0
    /\ regs' = [regs EXCEPT ![r] =
                   [pc |-> "idle",
                    ret |-> ToString(shutdowns[Len(shutdowns)].id)]]
    /\ UNCHANGED <<config, shutdowns, tasks, signalCtx, groupState, waitState,
                   coordinator>>

\* a registrar is between Lock and the completed store of the new slice
Appending == \E r \in Registrars : regs[r].pc = "locked"

\* what a load finds where no element was stored yet: the slot past the old
\* slice's length, or the old array read with the new length
InvalidShutdown == [id |-> 0, tag |-> "invalid"]

\* The values a read of g.shutdowns made without g.mutex can yield.  While
\* an append is in progress the read races with its stores: it finds the
\* old slice, the new slice, or the new length over an element that is not
\* there.
ReadShutdowns ==
    IF Appending
    THEN {shutdowns, Append(shutdowns, InvalidShutdown)} \cup
         {Append(shutdowns, newShutdown(t, Len(shutdowns) + 1)) : t \in TagInputs}
    ELSE {shutdowns}

\* ---------------------------------------------------------- background tasks
\* A background task returns e: nil, or its own error.
TaskReturn(i, e) ==
    /\ i \in 1..Len(tasks)
    /\ tasks[i] = "running"
    /\ tasks' = [tasks EXCEPT ![i] = IF e = Nil THEN "ok" ELSE "failed"]
    /\ groupErr' = ErrOnce(groupErr, e)
    /\ groupCtx' = GroupCtxAfter(e)
    /\ UNCHANGED <<registrars, config, shutdowns, signalCtx, waitState,
                   coordinator>>

\* One of the notified OS signals arrives: signalCtx is cancelled, and
\* groupCtx, derived from it, with it.
Signal ==
    /\ signalCtx.notify
    /\ ~signalCtx.done
    /\ signalCtx' = [signalCtx EXCEPT !.done = TRUE]
    /\ groupCtx' = Cancel(groupCtx, Canceled)
    /\ UNCHANGED <<registrars, config, shutdowns, tasks, groupErr, waitState,
                   coordinator>>

\* ---------------------------------------------------------------------- Wait
\* Wait: group.Go schedules the internal task, then the caller blocks in
\* group.Wait.
WaitCall ==
    /\ waitpc = "idle"
    /\ waitpc' = "waiting"
    /\ itpc' = "blocked"
    /\ UNCHANGED <<registrars, config, shutdowns, tasks, signalCtx,
                   groupState, waitResult, snapshot, next, deadlineFired,
                   shutdownGroupCtxErr, shutdownGroupErr, unit, fn, fnErr,
                   shutdownRet, atDeadline>>

\* mutant of TriggerObserved: the internal task does not wait for Done
TriggerObserved_NoWait == TRUE

\* mutant of TriggerObserved: the internal task waits for the signal context
\* only, a cancellation by a failed task does not wake it
TriggerObserved_SignalOnly == signalCtx.done

\* <-g.groupCtx.Done() lets the internal task pass.
TriggerObserved == groupCtx.done

\* mutant of HooksRegistered: the internal task calls shutdown() without
\* checking the length
HooksRegistered_Always(s) == TRUE

\* len(g.shutdowns) > 0, the slice read without g.mutex
HooksRegistered(s) == Len(s) > 0

\* mutant of NoHooksResult: the internal task returns g.groupCtx.Err()
NoHooksResult_CtxErr == Canceled

\* `return nil` of the internal task when no hook is registered
NoHooksResult == Nil

\* The internal task: past Done, it calls shutdown() if a hook is registered
\* and otherwise returns nil to the group.
WaitTaskCheck ==
    /\ itpc = "blocked"
    /\ TriggerObserved
    /\ \E s \in ReadShutdowns :
           IF HooksRegistered(s)
           THEN /\ itpc' = "shutdown"
                /\ UNCHANGED groupState
           ELSE /\ itpc' = "done"
                /\ groupErr' = ErrOnce(groupErr, NoHooksResult)
                /\ groupCtx' = GroupCtxAfter(NoHooksResult)
    /\ UNCHANGED <<registrars, config, shutdowns, tasks, signalCtx, waitState,
                   snapshot, next, deadlineFired, shutdownGroupCtxErr,
                   shutdownGroupErr, unit, fn, fnErr, shutdownRet,
                   atDeadline>>

\* ------------------------------------------------------------------ shutdown
Hooks == 1..Len(snapshot)

\* shutdown(): context.WithTimeout starts the timer, errgroup.WithContext and
\* SetLimit make the group, and range evaluates g.shutdowns once, without
\* g.mutex.  A range over no element goes straight to shutdownGroup.Wait.
ShutdownStart ==
    /\ itpc = "shutdown"
    /\ \E s \in ReadShutdowns :
           /\ snapshot' = s
           /\ itpc' = IF Len(s) = 0 THEN "wait" ELSE "loop"
           /\ unit' = [i \in 1..Len(s) |-> "idle"]
           /\ fn' = [i \in 1..Len(s) |-> "idle"]
           /\ fnErr' = [i \in 1..Len(s) |-> Nil]
    /\ next' = 1
    /\ UNCHANGED <<registrars, config, shutdowns, tasks, signalCtx,
                   groupState, waitState, deadlineFired, shutdownGroupCtxErr,
                   shutdownGroupErr, shutdownRet, atDeadline>>

\* units that hold a slot of the group's semaphore
ActiveUnits == {i \in Hooks : unit[i] = "select"}

\* mutant of SemFree: no hook is admitted once shutdownGroupCtx is done
SemFree_UntilDone ==
    /\ Cardinality(ActiveUnits) < maxShutdownProcess
    /\ shutdownGroupCtxErr = Nil

\* shutdownGroup.SetLimit(g.maxShutdownProcess): Go blocks while the
\* semaphore is full.
SemFree == Cardinality(ActiveUnits) < maxShutdownProcess

\* shutdownGroup.Go for the next hook of the range: takes a slot and starts
\* the unit, which makes errChan, starts the inner goroutine and reaches the
\* select.  After the last hook the loop ends and shutdownGroup.Wait begins.
ShutdownGo ==
    /\ itpc = "loop"
    /\ next \in Hooks
    /\ SemFree
    /\ unit' = [unit EXCEPT ![next] = "select"]
    /\ fn' = [fn EXCEPT ![next] = "spawned"]
    /\ next' = next + 1
    /\ itpc' = IF next = Len(snapshot) THEN "wait" ELSE "loop"
    /\ UNCHANGED <<registrars, config, shutdowns, tasks, signalCtx,
                   groupState, waitState, snapshot, deadlineFired,
                   shutdownGroupCtxErr, shutdownGroupErr, fnErr, shutdownRet,
                   atDeadline>>

\* The inner goroutine is scheduled and calls shutdownCopy.process.
HookInvoke(i) ==
    /\ i \in Hooks
    /\ fn[i] = "spawned"
    /\ fn' = [fn EXCEPT ![i] = "running"]
    /\ UNCHANGED <<registrars, config, shutdowns, tasks, signalCtx,
                   groupState, waitState, itpc, snapshot, next, deadlineFired,
                   shutdownGroupCtxErr, shutdownGroupErr, unit, fnErr,
                   shutdownRet, atDeadline>>

\* process returns e; the inner goroutine is then at `errChan <- err`.
HookReturn(i, e) ==
    /\ i \in Hooks
    /\ fn[i] = "running"
    /\ fn' = [fn EXCEPT ![i] = "returned"]
    /\ fnErr' = [fnErr EXCEPT ![i] = e]
    /\ UNCHANGED <<registrars, config, shutdowns, tasks, signalCtx,
                   groupState, waitState, itpc, snapshot, next, deadlineFired,
                   shutdownGroupCtxErr, shutdownGroupErr, unit, shutdownRet,
                   atDeadline>>

\* mutant of UnitResult: the unit drops the hook's error whatever the policy
UnitResult_IgnorePolicy(err) == Nil

\* mutant of UnitResult: the unit returns the hook's error whatever the policy
UnitResult_Always(err) == err

\* what the unit returns after receiving err from errChan
UnitResult(err) == IF cancelOnError THEN err ELSE Nil

\* the unit returned r to shutdownGroup: errOnce, cancel, slot released
UnitDone(i, r) ==
    /\ unit' = [unit EXCEPT ![i] = "done"]
    /\ shutdownGroupErr' = ErrOnce(shutdownGroupErr, r)
    /\ shutdownGroupCtxErr' = ShutdownGroupCtxAfter(r)

\* select, case err := <-errChan: the send and the receive meet, the inner
\* goroutine exits, the unit logs the outcome and returns.
UnitReceive(i) ==
    /\ i \in Hooks
    /\ unit[i] = "select"
    /\ fn[i] = "returned"
    /\ fn' = [fn EXCEPT ![i] = "exited"]
    /\ UnitDone(i, UnitResult(fnErr[i]))
    /\ UNCHANGED <<registrars, config, shutdowns, tasks, signalCtx,
                   groupState, waitState, itpc, snapshot, next, deadlineFired,
                   fnErr, shutdownRet, atDeadline>>

\* mutant of DoneReady: the select has no Done case, the unit waits for the hook
DoneReady_Never == FALSE

\* case <-shutdownGroupCtx.Done() is ready
DoneReady == shutdownGroupCtxErr # Nil

\* mutant of DoneResult: the Done case returns nil
DoneResult_Nil == Nil

\* return shutdownGroupCtx.Err()
DoneResult == shutdownGroupCtxErr

\* select, case <-shutdownGroupCtx.Done(): the unit returns without
\* receiving; the inner goroutine is left to itself.  When both cases are
\* ready select takes either.
UnitCancelled(i) ==
    /\ i \in Hooks
    /\ unit[i] = "select"
    /\ DoneReady
    /\ UnitDone(i, DoneResult)
    /\ UNCHANGED <<registrars, config, shutdowns, tasks, signalCtx,
                   groupState, waitState, itpc, snapshot, next, deadlineFired,
                   fn, fnErr, shutdownRet, atDeadline>>

\* The hooks' functions as the timer finds them: some admitted function has
\* not returned ("running"), every function of the range has returned
\* ("returned"), or the outstanding ones are all still queued ("queued").
FnsNow ==
    IF \E i \in Hooks : fn[i] \in {"spawned", "running"} THEN "running"
    ELSE IF \A i \in Hooks : fn[i] \in {"returned", "exited"} THEN "returned"
    ELSE "queued"

\* shutdownCtx's timer expires: it runs from WithTimeout until the deferred
\* shutdownCancel.  shutdownGroupCtx, derived from it, is done with
\* DeadlineExceeded unless it was cancelled before.
DeadlineFire ==
    /\ itpc \in {"loop", "wait"}
    /\ ~deadlineFired
    /\ deadlineFired' = TRUE
    /\ shutdownGroupCtxErr' =
           IF shutdownGroupCtxErr = Nil THEN DeadlineExceeded
           ELSE shutdownGroupCtxErr
    /\ atDeadline' = FnsNow
    /\ UNCHANGED <<registrars, config, shutdowns, tasks, signalCtx,
                   groupState, waitState, itpc, snapshot, next,
                   shutdownGroupErr, unit, fn, fnErr, shutdownRet>>

\* shutdownGroup.Wait returns once every unit has returned: it cancels
\* shutdownGroupCtx and returns the group's error, which shutdown() and then
\* the internal task return to g.group.
ShutdownReturn ==
    /\ itpc = "wait"
    /\ \A i \in Hooks : unit[i] = "done"
    /\ itpc' = "done"
    /\ shutdownRet' = shutdownGroupErr
    /\ shutdownGroupCtxErr' =
           IF shutdownGroupCtxErr = Nil THEN Canceled ELSE shutdownGroupCtxErr
    /\ groupErr' = ErrOnce(groupErr, shutdownGroupErr)
    /\ groupCtx' = GroupCtxAfter(shutdownGroupErr)
    /\ UNCHANGED <<registrars, config, shutdowns, tasks, signalCtx, waitState,
                   snapshot, next, deadlineFired, shutdownGroupErr, unit, fn,
                   fnErr, atDeadline>>

\* mutant of WaitReturn: Wait returns once the internal task has returned,
\* without waiting for the background tasks
WaitReturn_NoTaskWait ==
    /\ waitpc = "waiting"
    /\ itpc = "done"
    /\ waitpc' = "returned"
    /\ waitResult' = groupErr
    /\ signalCtx' = [done |-> TRUE, notify |-> FALSE]
    /\ groupCtx' = Cancel(groupCtx, groupErr)
    /\ UNCHANGED <<registrars, config, shutdowns, tasks, groupErr,
                   coordinator>>

\* group.Wait returns once every background task and the internal task have
\* returned; the deferred signalCancel releases the signal subscription.
WaitReturn ==
    /\ waitpc = "waiting"
    /\ itpc = "done"
    /\ \A i \in 1..Len(tasks) : tasks[i] # "running"
    /\ waitpc' = "returned"
    /\ waitResult' = groupErr
    /\ signalCtx' = [done |-> TRUE, notify |-> FALSE]
    /\ groupCtx' = Cancel(groupCtx, groupErr)
    /\ UNCHANGED <<registrars, config, shutdowns, tasks, groupErr,
                   coordinator>>

\* ------------------------------------------------------------- specification
Next ==
    \/ \E v \in BOOLEAN : SetCancelOnError(v)
    \/ \E d \in DurationInputs : SetMaxShutdownTime(d)
    \/ \E m \in ProcessCountInputs : SetMaxShutdownProcess(m)
    \/ \E p \in ProcessInputs : RegisterProcess(p)
    \/ \E p \in ProcessInputs : RegisterProcessWithContext(p)
    \/ \E p \in ProcessInputs : RegisterShutdownProcess(p)
    \/ \E p \in ProcessInputs, t \in TagInputs : RegisterShutdownProcessWithTag(p, t)
    \/ \E i \in 1..MaxTasks : \E e \in {Nil, TaskErr(i)} : TaskReturn(i, e)
    \/ Signal
    \/ WaitCall
    \/ WaitTaskCheck
    \/ ShutdownStart
    \/ ShutdownGo
    \/ \E i \in 1..MaxHooks : HookInvoke(i)
    \/ \E i \in 1..MaxHooks : \E e \in {Nil, HookErr(i)} : HookReturn(i, e)
    \/ \E i \in 1..MaxHooks : UnitReceive(i)
    \/ \E i \in 1..MaxHooks : UnitCancelled(i)
    \/ DeadlineFire
    \/ ShutdownReturn
    \/ WaitReturn

Spec == Init /\ [][Next]_vars

\* The Go scheduler runs every runnable goroutine: the internal task (one
\* goroutine, through its check, shutdown()'s start, the range loop and
\* shutdownGroup.Wait), each unit at its select and each inner goroutine's call of
\* process take their next step when it stays possible; a running timer
\* expires.  Background tasks are taken to return.  Nothing makes a hook's
\* process function return, a signal arrive, or the caller register, configure
\* or call Wait.
Fairness ==
    /\ WF_vars(WaitTaskCheck \/ ShutdownStart \/ ShutdownGo \/ ShutdownReturn)
    /\ \A i \in 1..MaxHooks : WF_vars(HookInvoke(i))
    /\ \A i \in 1..MaxHooks : WF_vars(UnitReceive(i) \/ UnitCancelled(i))
    /\ WF_vars(DeadlineFire)
    /\ WF_vars(WaitReturn)
    /\ \A i \in 1..MaxTasks : WF_vars(\E e \in {Nil, TaskErr(i)} : TaskReturn(i, e))

FairSpec == Init /\ [][Next]_vars /\ Fairness

\* The registry and its accesses: registrations made step by step by
\* concurrent goroutines, the background tasks, the trigger, Wait and the
\* internal task up to its reads of g.shutdowns (the length check and the
\* range).  What shutdown() does with the slice it read is Spec's subject.
RegistrationNext ==
    \/ \E p \in ProcessInputs : RegisterProcess(p)
    \/ \E p \in ProcessInputs : RegisterProcessWithContext(p)
    \/ \E r \in Registrars, p \in ProcessInputs : RegisterCall(r, p)
    \/ \E r \in Registrars, t \in TagInputs : RegisterAppend(r, t)
    \/ \E r \in Registrars : RegisterUnlock(r)
    \/ \E i \in 1..MaxTasks : \E e \in {Nil, TaskErr(i)} : TaskReturn(i, e)
    \/ Signal
    \/ WaitCall
    \/ WaitTaskCheck
    \/ ShutdownStart
    \/ WaitReturn

RegistrationSpec == Init /\ [][RegistrationNext]_vars

\* ---------------------------------------------------------------- properties
NoTaskFailed == \A t \in 1..Len(tasks) : tasks[t] # "failed"
FnReturned(i) == fn[i] \in {"returned", "exited"}
\* the unit of hook i returned through the Done case, without the result
Abandoned(i) == unit[i] = "done" /\ fn[i] # "exited"
ShutdownReturned == shutdownRet # NotReturned

\* C1: with cancelOnError true, once some hook run by the shutdown has
\* returned an error, a Wait that has returned has returned a non-nil error.
C1_HookFailurePropagates ==
    (waitpc = "returned" /\ cancelOnError /\ \E i \in Hooks : fnErr[i] # Nil)
        => waitResult # Nil

\* C1 witness: Wait returned a hook's error under cancelOnError.
C1_Witness ==
    /\ waitpc = "returned"
    /\ cancelOnError
    /\ \E i \in Hooks : fnErr[i] = HookErr(i) /\ waitResult = HookErr(i)

\* C2: with cancelOnError false and no failed task, if every hook function
\* had returned when the deadline fired (or it never fired), Wait returns nil.
C2_NilWhenHooksReturnInTime ==
    (/\ waitpc = "returned"
     /\ ~cancelOnError
     /\ NoTaskFailed
     /\ atDeadline \in {"unfired", "returned"})
        => waitResult = Nil

\* C3: with cancelOnError false and no failed task, Wait returns nil and
\* every task and every hook function of the shutdown has run to completion.
C3_NilAndAllCompleted ==
    (waitpc = "returned" /\ ~cancelOnError /\ NoTaskFailed)
        => /\ waitResult = Nil
           /\ \A t \in 1..Len(tasks) : tasks[t] = "ok"
           /\ \A i \in Hooks : FnReturned(i)

\* C4: the hook functions started and not yet returned never outnumber
\* maxShutdownProcess.
C4_RunningWithinCap ==
    Cardinality({i \in Hooks : fn[i] = "running"}) <= maxShutdownProcess

\* C5: once Wait has been called and the cancellation has fired, Wait
\* returns (tasks return, the timer expires), though hook functions may never
\* return.
C5_WaitReturnsDespiteHungHooks ==
    (waitpc = "waiting" /\ groupCtx.done) ~> (waitpc = "returned")

\* C5 witness: Wait has returned while an admitted hook function is still
\* running.
C5_Witness ==
    /\ waitpc = "returned"
    /\ \E i \in Hooks : fn[i] = "running"

C7_TaskFailureTriggersShutdown ==
    /\ (/\ waitpc = "waiting"
        /\ itpc = "blocked"
        /\ ~NoTaskFailed
        /\ ~signalCtx.done)
           ~> (/\ waitpc = "returned"
               /\ waitResult # Nil
               /\ \A i \in Hooks : fn[i] # "idle")
    /\ [][(itpc = "blocked" /\ itpc' = "done") => Len(shutdowns) = 0]_vars
    /\ [][(itpc = "shutdown" /\ itpc' = "loop") => snapshot' = shutdowns]_vars

\* C7 witness: Wait returned the task's error, the cancellation was caused by
\* the task and not by a signal, and the hooks were run.
C7_Witness ==
    /\ waitpc = "returned"
    /\ groupCtx.cause \in TaskErrs
    /\ waitResult = groupCtx.cause
    /\ Hooks # {}
    /\ \A i \in Hooks : fn[i] # "idle"

\* C8: Wait returns the error the group recorded; a recorded error is never
\* replaced; the first non-nil return of a task or of shutdown() is the one
\* recorded; when a task's failure cancelled the group, Wait returns it.
C8_FirstErrorWins ==
    /\ [](waitpc = "returned" =>
            /\ waitResult = groupErr
            /\ (groupCtx.cause \in TaskErrs => waitResult = groupCtx.cause))
    /\ [][/\ groupErr # Nil => groupErr' = groupErr
          /\ \A t \in 1..Len(tasks) :
                (groupErr = Nil /\ tasks[t] = "running" /\ tasks'[t] = "failed")
                    => groupErr' = TaskErr(t)
          /\ (groupErr = Nil /\ ~ShutdownReturned /\ ShutdownReturned')
                    => groupErr' = shutdownRet']_vars

\* C8 witness: Wait returned the task's error though shutdown() failed too.
C8_Witness ==
    /\ waitpc = "returned"
    /\ waitResult \in TaskErrs
    /\ ShutdownReturned
    /\ shutdownRet # Nil

\* C9: with no hook registered and no failed task, Wait returns nil.
C9_EmptyShutdownNil ==
    (waitpc = "returned" /\ Len(shutdowns) = 0 /\ NoTaskFailed)
        => waitResult = Nil

\* C9 witness: a signal ended a configured orchestrator with a task and no
\* hook.
C9_Witness ==
    /\ waitpc = "returned"
    /\ Len(shutdowns) = 0
    /\ Len(tasks) > 0
    /\ NoTaskFailed
    /\ groupCtx.cause = Canceled
    /\ cancelOnError
    /\ maxShutdownProcess = 1
    /\ maxShutdownTime = 1

\* C10: when a hook has been started the group's cancellation has fired and
\* Wait has been called.
C10_NoHookBeforeCancellation ==
    (\E i \in Hooks : fn[i] # "idle") => (groupCtx.done /\ waitpc # "idle")

\* C10 witness: a hook function is running while Wait is waiting.
C10_Witness ==
    /\ waitpc = "waiting"
    /\ \E i \in Hooks : fn[i] = "running"

\* the inner goroutine of hook i has called process
Invoked(i) == fn[i] \in {"running", "returned", "exited"}

C12_SettersKeepPositive ==
    /\ [](maxShutdownTime > 0 /\ maxShutdownProcess > 0)
    /\ [][\A d \in DurationInputs :
            SetMaxShutdownTime(d) =>
                maxShutdownTime' = IF d <= 0 THEN 10 ELSE d]_vars
    /\ [][\A m \in ProcessCountInputs :
            SetMaxShutdownProcess(m) =>
                maxShutdownProcess' = IF m <= 0 THEN 5 ELSE m]_vars

\* C12 witness: both setters were called with a positive value, which is
\* stored (a later call with 0 or -1 takes the setting back to its default).
C12_Witness ==
    /\ maxShutdownTime = 1
    /\ maxShutdownProcess = 1
    /\ waitpc = "idle"

\* C13: registering a nil process is a no-op.  A hook registration called
\* with nil returns "" to its caller and changes neither the registry, the
\* tasks, the mutex nor anything of the coordinator; a task registration
\* (plain or with context) called with nil starts no task and changes
\* neither the registry nor the coordinator.
C13_NilRegistrationNoOp ==
    /\ [][\A r \in Registrars :
            RegisterCall(r, "nil") =>
                /\ regs'[r] = [pc |-> "idle", ret |-> ""]
                /\ UNCHANGED <<shutdowns, tasks, mutex, coordinator>>]_vars
    /\ [][(RegisterProcess("nil") \/ RegisterProcessWithContext("nil")) =>
            UNCHANGED <<shutdowns, tasks, coordinator>>]_vars

\* C13 witness: a registrar called the registration with nil and was handed
\* the empty id; the registry and the tasks are still empty.
C13_Witness ==
    /\ \E r \in Registrars : regs[r].ret = ""
    /\ shutdowns = <<>>
    /\ tasks = <<>>

\* hook i's function is the first to have returned an error, before the
\* deadline, and no unit has returned an error yet
FirstFailure(i) ==
    /\ cancelOnError
    /\ i \in Hooks
    /\ fn[i] = "returned"
    /\ fnErr[i] = HookErr(i)
    /\ \A j \in Hooks \ {i} : fnErr[j] = Nil
    /\ ~deadlineFired
    /\ shutdownGroupErr = Nil

ShutdownCalled == itpc \in {"shutdown", "loop", "wait"} \/ ShutdownReturned

\* groupCtx is cancelled, the registry is empty and the internal task has
\* not passed its length check
EmptyAtCancellation ==
    /\ groupCtx.done
    /\ Len(shutdowns) = 0
    /\ itpc \in {"none", "blocked"}

\* C16 as stated: the range takes the registry as it is when the iteration
\* starts, the hooks of that shutdown never change afterwards, and if the
\* registry is empty when the cancellation fires shutdown() is never called.
C16_SnapshotAtIteration ==
    /\ [][(itpc = "shutdown" /\ itpc' # "shutdown") =>
            snapshot' \in ReadShutdowns]_vars
    /\ [][(itpc \notin {"none", "blocked", "shutdown"}) =>
            (snapshot' = snapshot /\ DOMAIN fn' = DOMAIN fn)]_vars
    /\ [](EmptyAtCancellation => [](~ShutdownCalled))

\* C16 amended: the range takes the registry as the coordinator reads it when
\* the iteration starts (the registry itself unless an append is in
\* progress), the hooks of that shutdown never change afterwards whatever is
\* registered later, and shutdown() is called exactly when the length the
\* internal task reads after it observed the cancellation is not zero.
C16_SnapshotAtRead ==
    /\ [][(itpc = "shutdown" /\ itpc' # "shutdown") =>
            snapshot' \in ReadShutdowns]_vars
    /\ [][(itpc \notin {"none", "blocked", "shutdown"}) =>
            (snapshot' = snapshot /\ DOMAIN fn' = DOMAIN fn)]_vars
    /\ [][(itpc = "blocked" /\ itpc' # "blocked") =>
            /\ groupCtx.done
            /\ \E s \in ReadShutdowns :
                   itpc' = IF Len(s) = 0 THEN "done" ELSE "shutdown"]_vars

\* C16 witness: shutdown() returned after running the hooks it read, while a
\* hook registered after the iteration started was never started.
C16_Witness ==
    /\ ShutdownReturned
    /\ Len(snapshot) > 0
    /\ Len(shutdowns) > Len(snapshot)
    /\ \A i \in Hooks : Invoked(i)
    /\ DOMAIN fn = Hooks

\* the internal task reads g.shutdowns in this step: the length check of
\* Wait, or the range of shutdown()
CoordinatorReads ==
    \/ itpc = "blocked" /\ itpc' # "blocked"
    \/ itpc = "shutdown" /\ itpc' # "shutdown"

\* C17: accesses to the registry are mutually exclusive: at most one
\* registrar is between Lock and Unlock, an append adds its hook after the
\* hooks already there, and the coordinator never reads the registry while
\* an append is in progress.
C17_RegistryAccessExclusive ==
    /\ [](Cardinality({r \in Registrars : regs[r].pc # "idle"}) <= 1)
    /\ [](\A r \in Registrars : regs[r].pc # "idle" => mutex = r)
    /\ [][\A i \in DOMAIN shutdowns :
            i \in DOMAIN shutdowns' /\ shutdowns'[i] = shutdowns[i]]_vars
    /\ [][CoordinatorReads => ~Appending]_vars

\* the inner goroutine of hook i stands at `errChan <- err` and its unit,
\* the only receiver of errChan, has returned: no step lets it go on
BlockedAtSend(i) == unit[i] = "done" /\ fn[i] = "returned"

\* C18: a hook whose unit returned before its function did (its wait was
\* abandoned) has an inner goroutine that ends once the function returns:
\* the step in which the function returns never leaves that goroutine
\* blocked at the send of its result.
C18_AbandonedHookTerminates ==
    [][\A i \in DOMAIN fn :
          (unit[i] = "done" /\ fn[i] \in {"spawned", "running"})
              => ~BlockedAtSend(i)']_vars

\* C19: what shutdown() returns is nil, or the error some hook of the
\* snapshot returned (only with cancelOnError true), or DeadlineExceeded
\* (only if the deadline fired); it is never context.Canceled.
C19_ShutdownResultKinds ==
    ShutdownReturned =>
        /\ shutdownRet # Canceled
        /\ \/ shutdownRet = Nil
           \/ /\ cancelOnError
              /\ \E i \in Hooks : shutdownRet = HookErr(i) /\ fnErr[i] = HookErr(i)
           \/ /\ shutdownRet = DeadlineExceeded
              /\ deadlineFired

\* C19 witness: a hook's error cancelled shutdownGroupCtx, another unit left
\* through the Done case with context.Canceled, and shutdown() returned the
\* hook's error.
C19_Witness ==
    /\ ShutdownReturned
    /\ shutdownGroupCtxErr = Canceled
    /\ shutdownRet \in HookErrs
    /\ \E j \in Hooks : Abandoned(j)

\* the cancellation fired after construction and before Wait was called
TriggeredBeforeWait == waitpc = "idle" /\ groupCtx.done

====
